---- MODULE Spec2Model ----
(***************************************************************************)
(* A model of the gantt_chart layout engine (src/src/lib.rs):              *)
(* GanttChartTool::process_chart_data followed by the canvas computation   *)
(* of GanttChartTool::render_chart, as GanttChartTool::run chains them.    *)
(*                                                                         *)
(* Instants (chrono NaiveDateTime) are integers counted in ticks, with     *)
(* TicksPerDay ticks to a day, day 0 being 1970-01-01; a NaiveDate is the  *)
(* instant at midnight of its day.  f32 values are exact rationals with    *)
(* the IEEE-754 special values NaN, +inf and -inf; rounding and the sign   *)
(* of zero are not modelled.  Titles, the open flag and the resource       *)
(* styles are left out: the layout computes nothing from them.  A run that *)
(* panics (chrono's date arithmetic leaving its range) ends with           *)
(* pc = "panicked": process_chart_data returns neither Ok nor Err.         *)
(***************************************************************************)
EXTENDS Integers, Sequences, FiniteSets, TLC

(***************************************************************************)
(* Bounds of the model.                                                    *)
(***************************************************************************)
MaxItems == 3

NumResources == 2

TicksPerDay == 2

(***************************************************************************)
(* Option<T>.                                                              *)
(***************************************************************************)
None == [some |-> FALSE, v |-> 0]

Some(x) == [some |-> TRUE, v |-> x]

(***************************************************************************)
(* The outcome of an operation that can panic: Ok(x) when it returns x,    *)
(* Panic when it aborts the process.                                       *)
(***************************************************************************)
Ok(x) == [ok |-> TRUE, v |-> x]

Panic == [ok |-> FALSE, v |-> 0]

(***************************************************************************)
(* chrono calendar arithmetic, on day numbers (days since 1970-01-01).     *)
(***************************************************************************)
DaysFromCivil(y, m, d) ==
    LET yy  == IF m <= 2 THEN y - 1 ELSE y
        era == yy \div 400
        yoe == yy - era * 400
        mp  == (m + 9) % 12
        doy == (153 * mp + 2) \div 5 + d - 1
        doe == yoe * 365 + yoe \div 4 - yoe \div 100 + doy
    IN  era * 146097 + doe - 719468

CivilFromDays(z) ==
    LET zz  == z + 719468
        era == zz \div 146097
        doe == zz - era * 146097
        yoe == (doe - doe \div 1460 + doe \div 36524 - doe \div 146096) \div 365
        doy == doe - (365 * yoe + yoe \div 4 - yoe \div 100)
        mp  == (5 * doy + 2) \div 153
        dd  == doy - (153 * mp + 2) \div 5 + 1
        mm  == IF mp < 10 THEN mp + 3 ELSE mp - 9
    IN  [year |-> IF mm <= 2 THEN yoe + era * 400 + 1 ELSE yoe + era * 400,
         month |-> mm, day |-> dd]

\* The instant at midnight of the calendar date y-m-d.
Midnight(y, m, d) == DaysFromCivil(y, m, d) * TicksPerDay

\* The calendar day an instant lies in.
DayOf(t) == t \div TicksPerDay

YearOf(t) == CivilFromDays(DayOf(t)).year

MonthOf(t) == CivilFromDays(DayOf(t)).month

\* Datelike::weekday: 0 = Monday .. 5 = Saturday, 6 = Sunday.
Sat == 5

Sun == 6

Weekday(t) == (DayOf(t) + 3) % 7

\* Duration::days(n).  Day counts beyond the range of TimeDelta (about 10^11
\* days) exceed the integers of the model; added to any instant they overflow
\* NaiveDateTime as the day counts of the model beyond chrono's years do.
Days(n) == n * TicksPerDay

\* Duration::num_days: whole days, truncated toward zero.
NumDays(dt) == IF dt >= 0 THEN dt \div TicksPerDay ELSE -((-dt) \div TicksPerDay)

\* NaiveDateTime::MAX and NaiveDateTime::MIN.
DateTimeMax == Midnight(262142, 12, 31) + (TicksPerDay - 1)

DateTimeMin == Midnight(-262143, 1, 1)

\* NaiveDate::from_ymd(y, m, d), as the instant at midnight: it panics when
\* y-m-d is not a date of the calendar or lies outside chrono's range.
FromYmd(y, m, d) ==
    LET t == Midnight(y, m, d)
    IN  IF /\ DateTimeMin <= t
           /\ t <= DateTimeMax
           /\ CivilFromDays(DayOf(t)) = [year |-> y, month |-> m, day |-> d]
        THEN Ok(t)
        ELSE Panic

\* `NaiveDateTime + TimeDelta` and `+=`: they panic when the sum lies outside
\* chrono's range.
CheckedAdd(t, dt) ==
    IF DateTimeMin <= t + dt /\ t + dt <= DateTimeMax THEN Ok(t + dt) ELSE Panic

\* Lines 213-224: from_ymd of the next month's first day, and pred() of it.
num_days_in_month(year, month) ==
    LET y == IF month = 12 THEN year + 1 ELSE year
        m == IF month = 12 THEN 1 ELSE month + 1
        d == FromYmd(y, m, 1)
    IN  IF ~d.ok \/ d.v - TicksPerDay < DateTimeMin THEN Panic
        ELSE Ok(CivilFromDays(DayOf(d.v) - 1).day)

MONTH_NAMES ==
    << "Jan", "Feb", "Mar", "Apr", "May", "Jun",
       "Jul", "Aug", "Sep", "Oct", "Nov", "Dec" >>

(***************************************************************************)
(* f32 arithmetic: n/d with d > 0 is a finite value; d = 0 marks the       *)
(* special values (n = 0: NaN, n = 1: +inf, n = -1: -inf).                 *)
(***************************************************************************)
RECURSIVE Gcd(_, _)
Gcd(a, b) == IF b = 0 THEN a ELSE Gcd(b, a % b)

Abs(x) == IF x < 0 THEN -x ELSE x

Sgn(x) == IF x < 0 THEN -1 ELSE IF x = 0 THEN 0 ELSE 1

NaN == [n |-> 0, d |-> 0]

Inf(s) == [n |-> s, d |-> 0]

FNorm(n, d) == LET g == Gcd(Abs(n), d) IN [n |-> n \div g, d |-> d \div g]

\* An integer `as f32`, and an f32 literal.
F(x) == [n |-> x, d |-> 1]

IsNaN(a) == a.d = 0 /\ a.n = 0

IsInf(a) == a.d = 0 /\ a.n # 0

FAdd(a, b) ==
    IF IsNaN(a) \/ IsNaN(b) THEN NaN
    ELSE IF IsInf(a) /\ IsInf(b) THEN (IF a.n = b.n THEN a ELSE NaN)
    ELSE IF IsInf(a) THEN a
    ELSE IF IsInf(b) THEN b
    ELSE FNorm(a.n * b.d + b.n * a.d, a.d * b.d)

FMul(a, b) ==
    IF IsNaN(a) \/ IsNaN(b) THEN NaN
    ELSE IF IsInf(a) \/ IsInf(b)
         THEN (IF a.n = 0 \/ b.n = 0 THEN NaN ELSE Inf(Sgn(a.n) * Sgn(b.n)))
    ELSE FNorm(a.n * b.n, a.d * b.d)

FDiv(a, b) ==
    IF IsNaN(a) \/ IsNaN(b) THEN NaN
    ELSE IF IsInf(a) THEN (IF IsInf(b) THEN NaN
                           ELSE Inf(a.n * (IF b.n < 0 THEN -1 ELSE 1)))
    ELSE IF IsInf(b) THEN F(0)
    ELSE IF b.n = 0 THEN (IF a.n = 0 THEN NaN ELSE Inf(Sgn(a.n)))
    ELSE FNorm(a.n * b.d * Sgn(b.n), a.d * Abs(b.n))

\* The comparisons of f32: every comparison with NaN is false.
FLt(a, b) ==
    /\ ~IsNaN(a)
    /\ ~IsNaN(b)
    /\ IF IsInf(a) \/ IsInf(b)
       THEN (IF IsInf(a) /\ IsInf(b) THEN a.n < b.n
             ELSE IF IsInf(a) THEN a.n < 0 ELSE b.n > 0)
       ELSE a.n * b.d < b.n * a.d

FLe(a, b) == ~IsNaN(a) /\ ~IsNaN(b) /\ (a = b \/ FLt(a, b))

RECURSIVE FSum(_)
FSum(s) == IF s = <<>> THEN F(0) ELSE FAdd(FSum(SubSeq(s, 1, Len(s) - 1)), s[Len(s)])

(***************************************************************************)
(* Inputs: ChartData.items (src/src/item_data.rs), the number of entries   *)
(* of ChartData.resources, and the command line's widths.                  *)
(***************************************************************************)
Noon == TicksPerDay \div 2

\* Fri 2023-12-29, Mon 2024-01-01, Sat 2024-03-30 12:00.
StartInstants ==
    { Midnight(2023, 12, 29), Midnight(2024, 1, 1), Midnight(2024, 3, 30) + Noon }

\* Sun 2023-12-31.
SundayStart == Midnight(2023, 12, 31)

Durations == { -3, 3, 5 }

OptStarts == {None} \cup { Some(t) : t \in StartInstants }

OptDurations == {None} \cup { Some(n) : n \in Durations }

\* Resource indexes 0 .. NumResources-1 are valid, NumResources is not.
OptResources == {None} \cup { Some(r) : r \in 0..NumResources }

ItemData(s, n, r) == [start_date |-> s, duration |-> n, resource_index |-> r]

\* A schedule that varies dates and durations; item k carries resource
\* (k-1) mod NumResources.
DatedSchedule(f) ==
    [k \in DOMAIN f |-> ItemData(f[k][1], f[k][2], Some((k - 1) % NumResources))]

\* A schedule that varies the presence and the value of the resource index; the
\* items last 3 days, from the cursor or from a Sunday.
ResourceSchedule(f) ==
    [k \in DOMAIN f |-> ItemData(f[k][1], Some(3), f[k][2])]

\* Durations that carry the cursor to December 262142, the last month of
\* chrono's range, beyond NaiveDateTime::MAX and below NaiveDateTime::MIN.
FarDurations == { 95006497, 100000000, -97000000 }

\* A schedule that starts on Mon 2024-01-01 and whose items are milestones or
\* last that long; item k carries resource (k-1) mod NumResources.
FarSchedule(f) ==
    [k \in DOMAIN f |->
        ItemData(IF k = 1 THEN Some(Midnight(2024, 1, 1)) ELSE None, f[k],
                 Some((k - 1) % NumResources))]

\* --max-month-width and --title-width (f32); the defaults are 80 and 210.
MonthWidths == { F(0), F(80) }

title_width == F(210)

MarkedDates == { None, Some(Midnight(2024, 1, 15)) }

(***************************************************************************)
(* Layout constants of process_chart_data.                                 *)
(***************************************************************************)
gutter == [left |-> F(10), top |-> F(80), right |-> F(10), bottom |-> F(10)]

row_gutter == [left |-> F(5), top |-> F(5), right |-> F(5), bottom |-> F(5)]

resource_gutter == [left |-> F(10), top |-> F(10), right |-> F(10), bottom |-> F(10)]

GutterHeight(g) == FAdd(g.bottom, g.top)

GutterWidth(g) == FAdd(g.right, g.left)

row_height == FAdd(GutterHeight(row_gutter), F(20))

resource_height == FAdd(GutterHeight(resource_gutter), F(20))

(***************************************************************************)
(* State.                                                                  *)
(***************************************************************************)
VARIABLES
    items,              \* chart_data.items
    max_month_width,    \* the max_month_width parameter
    pc,                 \* where the run is
    error,              \* the Err message, "" while there is none
    i,                  \* the index of the item the current loop is at
    date,               \* the running cursor
    start_date,
    end_date,
    shadow_durations,
    num_item_days,
    all_items_width,
    cols,
    resource_index,
    rows,
    marked_date_offset,
    canvas              \* render_chart's add_resource_table, width and height

vars ==
    << items, max_month_width, pc, error, i, date, start_date, end_date,
       shadow_durations, num_item_days, all_items_width, cols, resource_index,
       rows, marked_date_offset, canvas >>

Init ==
    /\ \E len \in 0..MaxItems :
          \/ \E f \in [1..len -> OptStarts \X OptDurations] :
                 items = DatedSchedule(f)
          \/ \E f \in [1..len -> {None, Some(SundayStart)} \X OptResources] :
                 items = ResourceSchedule(f)
          \/ \E f \in [1..len -> {None} \cup { Some(n) : n \in FarDurations }] :
                 items = FarSchedule(f)
    /\ max_month_width \in MonthWidths
    /\ pc = "start"
    /\ error = ""
    /\ i = 1
    /\ date = DateTimeMin
    /\ start_date = DateTimeMax
    /\ end_date = DateTimeMin
    /\ shadow_durations = <<>>
    /\ num_item_days = 0
    /\ all_items_width = F(0)
    /\ cols = <<>>
    /\ resource_index = 0
    /\ rows = <<>>
    /\ marked_date_offset = None
    /\ canvas = None

(***************************************************************************)
(* process_chart_data, lines 226-234: the item count check and the locals  *)
(* of the first pass.                                                      *)
(***************************************************************************)
CheckItemCount ==
    /\ pc = "start"
    /\ IF Len(items) < 2
       THEN /\ pc' = "failed"
            /\ error' = "You must provide more than one task"
       ELSE /\ pc' = "span"
            /\ error' = error
    /\ UNCHANGED << items, max_month_width, i, date, start_date, end_date,
                    shadow_durations, num_item_days, all_items_width, cols,
                    resource_index, rows, marked_date_offset, canvas >>

(***************************************************************************)
(* Lines 237-281: one iteration of the first pass.                         *)
(***************************************************************************)
\* Lines 243-247: move an instant off a weekend.
WeekendSnap(t) ==
    IF Weekday(t) = Sat THEN CheckedAdd(t, Days(2))
    ELSE IF Weekday(t) = Sun THEN CheckedAdd(t, Days(1))
    ELSE Ok(t)

\* ShadowDuration with a Saturday end pushed one day only.
ShadowDurationSatOne(cursor, item_days) ==
    LET projected == CheckedAdd(cursor, Days(item_days))
    IN  IF ~projected.ok THEN Panic
        ELSE IF Weekday(projected.v) = Sat THEN Ok(item_days + 1)
        ELSE IF Weekday(projected.v) = Sun THEN Ok(item_days + 1)
        ELSE Ok(item_days)

\* Lines 255-259: the shadow duration, in days, of item_days from the cursor;
\* the projected end `date + Duration::days(item_days)` can overflow.
ShadowDuration(cursor, item_days) ==
    LET projected == CheckedAdd(cursor, Days(item_days))
    IN  IF ~projected.ok THEN Panic
        ELSE IF Weekday(projected.v) = Sat THEN Ok(item_days + 2)
        ELSE IF Weekday(projected.v) = Sun THEN Ok(item_days + 1)
        ELSE Ok(item_days)

\* Lines 238-239: the cursor jumps to an explicit start.
SpanCursor(item) == IF item.start_date.some THEN item.start_date.v ELSE date

\* Lines 241-248: the project start moves to an earlier explicit start, off
\* its weekend.
SpanStart(item) ==
    IF item.start_date.some /\ item.start_date.v < start_date
    THEN WeekendSnap(item.start_date.v)
    ELSE Ok(start_date)

\* Lines 268-270.
SpanEnd(cursor) == IF end_date < cursor THEN cursor ELSE end_date

\* ResourceError with the bound test off by one (> for >=).
ResourceErrorOffByOne(item, idx) ==
    IF item.resource_index.some
    THEN (IF item.resource_index.v > NumResources
          THEN "Resource index is out of range" ELSE "")
    ELSE (IF idx = 0 THEN "First item must contain a resource index" ELSE "")

\* Lines 272-280: the message of the resource index check, "" when it passes.
ResourceError(item, idx) ==
    IF item.resource_index.some
    THEN (IF item.resource_index.v >= NumResources
          THEN "Resource index is out of range" ELSE "")
    ELSE (IF idx = 0 THEN "First item must contain a resource index" ELSE "")

SpanItem ==
    /\ pc = "span"
    /\ i <= Len(items)
    /\ LET item == items[i]
           idx  == i - 1
       IN  IF ~item.start_date.some /\ idx = 0
           THEN /\ pc' = "failed"
                /\ error' = "First item must contain a start date"
                /\ UNCHANGED << i, date, start_date, end_date, shadow_durations >>
           ELSE LET jumped == SpanCursor(item)
                    start  == SpanStart(item)
                    days   == IF item.duration.some
                              THEN ShadowDuration(jumped, item.duration.v)
                              ELSE Panic
                    date1  == IF ~item.duration.some THEN Ok(jumped)
                              ELSE IF ~days.ok THEN Panic
                              ELSE CheckedAdd(jumped, Days(days.v))
                    shadow == IF item.duration.some THEN Some(days.v) ELSE None
                    msg    == ResourceError(item, idx)
                IN  IF ~start.ok \/ ~date1.ok
                    THEN \* lines 244, 245, 255 or 261: an overflow panic
                         /\ pc' = "panicked"
                         /\ UNCHANGED << error, i, date, start_date, end_date,
                                         shadow_durations >>
                    ELSE /\ date' = date1.v
                         /\ start_date' = start.v
                         /\ shadow_durations' = Append(shadow_durations, shadow)
                         /\ end_date' = SpanEnd(date1.v)
                         /\ error' = msg
                         /\ i' = IF msg = "" THEN i + 1 ELSE i
                         /\ pc' = IF msg # "" THEN "failed"
                                  ELSE IF i = Len(items) THEN "months" ELSE "span"
    /\ UNCHANGED << items, max_month_width, num_item_days, all_items_width, cols,
                    resource_index, rows, marked_date_offset, canvas >>

(***************************************************************************)
(* Lines 283-295: the span snapped to whole months, and the locals of the  *)
(* column loop.                                                            *)
(***************************************************************************)
\* Line 283.
FirstOfMonth(t) == FromYmd(YearOf(t), MonthOf(t), 1)

\* Lines 284-288.
LastOfMonth(t) ==
    LET days == num_days_in_month(YearOf(t), MonthOf(t))
    IN  IF ~days.ok THEN Panic ELSE FromYmd(YearOf(t), MonthOf(t), days.v)

SnapMonths ==
    /\ pc = "months"
    /\ LET first == FirstOfMonth(start_date)
           last  == LastOfMonth(end_date)
       IN  IF ~first.ok \/ ~last.ok
           THEN \* from_ymd panics: the month after end_date's is out of range
                /\ pc' = "panicked"
                /\ UNCHANGED << date, start_date, end_date, num_item_days,
                                all_items_width, cols >>
           ELSE /\ start_date' = first.v
                /\ end_date' = last.v
                /\ all_items_width' = F(0)
                /\ num_item_days' = 0
                /\ cols' = <<>>
                /\ date' = first.v
                /\ pc' = "cols"
    /\ UNCHANGED << items, max_month_width, error, i, shadow_durations,
                    resource_index, rows, marked_date_offset, canvas >>

(***************************************************************************)
(* Lines 297-314: one iteration of the column loop.                        *)
(***************************************************************************)
\* Lines 309-313: the first day of the month after the one t lies in.
NextMonth(t) ==
    FromYmd(YearOf(t) + (IF MonthOf(t) = 12 THEN 1 ELSE 0), (MonthOf(t) % 12) + 1, 1)

\* Line 299.
ItemWidth(item_days) == FDiv(FMul(max_month_width, F(item_days)), F(31))

\* Line 302.
AddWidth(sum, item_width) == FAdd(sum, item_width)

ColumnStep ==
    /\ pc = "cols"
    /\ date <= end_date
    /\ LET item_days == num_days_in_month(YearOf(date), MonthOf(date))
           next      == NextMonth(date)
       IN  IF ~item_days.ok \/ ~next.ok
           THEN /\ pc' = "panicked"
                /\ UNCHANGED << date, num_item_days, all_items_width, cols >>
           ELSE /\ num_item_days' = num_item_days + item_days.v
                /\ all_items_width' =
                      AddWidth(all_items_width, ItemWidth(item_days.v))
                /\ cols' = Append(cols, [width |-> ItemWidth(item_days.v),
                                         month_name |-> MONTH_NAMES[MonthOf(date)]])
                /\ date' = next.v
                /\ pc' = pc
    /\ UNCHANGED << items, max_month_width, error, i, start_date, end_date,
                    shadow_durations, resource_index, rows, marked_date_offset,
                    canvas >>

(***************************************************************************)
(* Lines 316-340: the column loop is over; the locals of the second pass.  *)
(***************************************************************************)
BeginRows ==
    /\ pc = "cols"
    /\ ~(date <= end_date)
    /\ date' = start_date
    /\ resource_index' = 0
    /\ rows' = <<>>
    /\ i' = 1
    /\ pc' = "rows"
    /\ UNCHANGED << items, max_month_width, error, start_date, end_date,
                    shadow_durations, num_item_days, all_items_width, cols,
                    marked_date_offset, canvas >>

(***************************************************************************)
(* Lines 343-372: one iteration of the second pass.                        *)
(***************************************************************************)
\* Lines 348-351 and 377-380: the horizontal position of an instant.
Offset(t) ==
    FAdd(FAdd(title_width, gutter.left),
         FMul(FDiv(F(NumDays(t - start_date)), F(num_item_days)), all_items_width))

\* Line 358.
Length(item_days) == FMul(FDiv(F(item_days), F(num_item_days)), all_items_width)

\* Lines 344-346: the cursor jumps to an explicit start.
RowCursor(item) == IF item.start_date.some THEN item.start_date.v ELSE date

\* RowAdvance that leaves the cursor where the item started.
RowAdvanceDropped(cursor, shadow) == Ok(cursor)

\* Lines 355-357: the cursor moves on by the shadow duration, if there is one.
RowAdvance(cursor, shadow) ==
    IF shadow.some THEN CheckedAdd(cursor, Days(shadow.v)) ELSE Ok(cursor)

\* RowResource without the running index: an item without one gets 0.
RowResourceNoInherit(item) ==
    IF item.resource_index.some THEN item.resource_index.v ELSE 0

\* Lines 361-363.
RowResource(item) ==
    IF item.resource_index.some THEN item.resource_index.v ELSE resource_index

RowItem ==
    /\ pc = "rows"
    /\ i <= Len(items)
    /\ LET item   == items[i]
           jumped == RowCursor(item)
           shadow == shadow_durations[i]
           moved  == RowAdvance(jumped, shadow)
       IN  IF ~moved.ok
           THEN /\ pc' = "panicked"
                /\ UNCHANGED << i, date, resource_index, rows >>
           ELSE /\ date' = moved.v
                /\ resource_index' = RowResource(item)
                /\ rows' = Append(rows,
                       [resource_index |-> RowResource(item),
                        offset |-> Offset(jumped),
                        length |-> IF shadow.some THEN Some(Length(shadow.v))
                                   ELSE None])
                /\ i' = i + 1
                /\ pc' = pc
    /\ UNCHANGED << items, max_month_width, error, start_date, end_date,
                    shadow_durations, num_item_days, all_items_width, cols,
                    marked_date_offset, canvas >>

(***************************************************************************)
(* Lines 374-433: the marked date, and Ok(RenderData).                     *)
(***************************************************************************)
Finish ==
    /\ pc = "rows"
    /\ i > Len(items)
    /\ \E marked_date \in MarkedDates :
          marked_date_offset' =
              IF marked_date.some THEN Some(Offset(marked_date.v)) ELSE None
    /\ pc' = "processed"
    /\ UNCHANGED << items, max_month_width, error, i, date, start_date, end_date,
                    shadow_durations, num_item_days, all_items_width, cols,
                    resource_index, rows, canvas >>

(***************************************************************************)
(* render_chart, lines 440-451: the canvas size.                           *)
(***************************************************************************)
CanvasWidth ==
    FAdd(FAdd(FAdd(gutter.left, title_width),
              FSum([k \in 1..Len(cols) |-> cols[k].width])),
         gutter.right)

CanvasHeight(add_resource_table) ==
    FAdd(FAdd(FAdd(gutter.top, FMul(F(Len(rows)), row_height)),
              IF add_resource_table
              THEN FAdd(GutterHeight(resource_gutter), resource_height)
              ELSE F(0)),
         gutter.bottom)

RenderChart ==
    /\ pc = "processed"
    /\ \E add_resource_table \in BOOLEAN :
          canvas' = Some([add_resource_table |-> add_resource_table,
                          width |-> CanvasWidth,
                          height |-> CanvasHeight(add_resource_table)])
    /\ pc' = "rendered"
    /\ UNCHANGED << items, max_month_width, error, i, date, start_date, end_date,
                    shadow_durations, num_item_days, all_items_width, cols,
                    resource_index, rows, marked_date_offset >>

Next ==
    \/ CheckItemCount
    \/ SpanItem
    \/ SnapMonths
    \/ ColumnStep
    \/ BeginRows
    \/ RowItem
    \/ Finish
    \/ RenderChart

Spec == Init /\ [][Next]_vars

(***************************************************************************)
(* Properties.  The definitions below restate the schedule's rules from    *)
(* the input alone, for the formulas to compare the run against.           *)
(***************************************************************************)
Indexes == 1..Len(items)

\* The four reasons to reject a schedule.
TooFewItems == Len(items) < 2

NoFirstStart == Len(items) >= 1 /\ ~items[1].start_date.some

NoFirstResource == Len(items) >= 1 /\ ~items[1].resource_index.some

ResourceOutOfBounds ==
    \E k \in Indexes :
        items[k].resource_index.some /\ items[k].resource_index.v >= NumResources

Rejected == TooFewItems \/ NoFirstStart \/ NoFirstResource \/ ResourceOutOfBounds

\* The run has a geometry model, and the run has left the validation behind.
HasGeometry == pc \in {"processed", "rendered"}

PastValidation == pc \in {"months", "cols", "rows", "processed", "rendered"}

IsWeekend(t) == Weekday(t) \in {Sat, Sun}

\* The cursor an item starts from, and the cursor it leaves behind: its explicit
\* start, or else what the item before it left behind.
RECURSIVE CursorAt(_)
CursorAfter(k) ==
    IF shadow_durations[k].some
    THEN CursorAt(k) + Days(shadow_durations[k].v)
    ELSE CursorAt(k)

CursorAt(k) ==
    IF items[k].start_date.some THEN items[k].start_date.v
    ELSE IF k = 1 THEN DateTimeMin
    ELSE CursorAfter(k - 1)

\* C1: process_chart_data returns an error, with no geometry and no canvas,
\* exactly for the schedules that have fewer than two items, no start date or
\* no resource index on the first item, or a resource index out of bounds; for
\* every other schedule it returns a geometry model: the run neither fails nor
\* ends without a result, and does not stop inside the validation pass.
C1_ErrorIffRejected ==
    /\ pc = "failed" => Rejected /\ error # "" /\ rows = <<>> /\ cols = <<>>
                        /\ ~canvas.some
    /\ Rejected => ~PastValidation
    /\ ~Rejected => pc \notin {"failed", "panicked"}
    /\ pc = "span" => i <= Len(items)

\* C2: every item that carries a duration gets a shadow duration: when cursor
\* + duration is a Saturday or a Sunday, the duration plus 2 or 1 days, with
\* cursor + shadow duration a weekday; otherwise the duration itself.
C2_ShadowEndsOnWeekday ==
    \A k \in 1..Len(shadow_durations) :
        items[k].duration.some =>
            /\ shadow_durations[k].some
            /\ LET c == CursorAt(k)
                   d == items[k].duration.v
                   s == shadow_durations[k].v
               IN  IF IsWeekend(c + Days(d))
                   THEN s - d \in {1, 2} /\ ~IsWeekend(c + Days(s))
                   ELSE s = d

\* A finished run in which one item was extended by 2 days, one by 1 day and
\* one not at all.
C2_Witness ==
    /\ pc = "rendered"
    /\ \E a, b, c \in Indexes :
          /\ items[a].duration.some /\ shadow_durations[a].v = items[a].duration.v + 2
          /\ items[b].duration.some /\ shadow_durations[b].v = items[b].duration.v + 1
          /\ items[c].duration.some /\ shadow_durations[c].v = items[c].duration.v

\* The resource index of the nearest item at or before k that carries one.
RECURSIVE NearestResource(_)
NearestResource(k) ==
    IF items[k].resource_index.some THEN items[k].resource_index.v
    ELSE NearestResource(k - 1)

\* C3: every row's resource index is in [0, len(resources)): the item's own,
\* or else that of the nearest preceding item that carries one.
C3_RowResourceInBounds ==
    \A k \in 1..Len(rows) :
        /\ rows[k].resource_index \in 0..(NumResources - 1)
        /\ rows[k].resource_index = NearestResource(k)

\* The third row inherits index 1 from the second item, not 0 from the first.
C3_Witness ==
    /\ pc = "rendered"
    /\ Len(rows) = 3
    /\ items[1].resource_index = Some(0)
    /\ items[2].resource_index = Some(1)
    /\ ~items[3].resource_index.some
    /\ rows[3].resource_index = 1

\* The run is past the month-column loop.
AfterColumns == pc \in {"rows", "processed", "rendered"}

NonNegativeDurations ==
    \A k \in Indexes : items[k].duration.some => items[k].duration.v >= 0

\* Calendar months, numbered across years.
MonthIndex(t) == YearOf(t) * 12 + (MonthOf(t) - 1)

MinOf(S) == CHOOSE x \in S : \A y \in S : x <= y

MaxOf(S) == CHOOSE x \in S : \A y \in S : y <= x

\* The instants the items occupy: where each starts and where each ends.
ItemInstants == { CursorAt(k) : k \in Indexes } \cup { CursorAfter(k) : k \in Indexes }

\* The items do not all lie in one calendar month.
SpansMonths == MonthIndex(MinOf(ItemInstants)) # MonthIndex(MaxOf(ItemInstants))

PositiveWidths == FLt(F(0), all_items_width) /\ num_item_days > 0

\* C4: for any valid schedule whose items span more than one calendar month,
\* with a positive maximum month width, the sum of the column widths and the
\* total day count are strictly positive after the column loop.
C4_PositiveWidths ==
    AfterColumns /\ FLt(F(0), max_month_width) /\ SpansMonths => PositiveWidths

\* Each item starts no earlier than the item before it.
Chronological == \A k \in Indexes : k > 1 => CursorAt(k - 1) <= CursorAt(k)

\* C5: when the items are in non-decreasing chronological order, the offsets
\* of the rows are non-decreasing in input order.  Stated for the schedules
\* without negative durations, which the claim covers.
C5_OffsetsNonDecreasing ==
    AfterColumns /\ Chronological /\ NonNegativeDurations =>
        \A k \in 1..Len(rows) : k > 1 => FLe(rows[k - 1].offset, rows[k].offset)

\* C6: a milestone's row has no length; the row of an item with a positive
\* duration has a strictly positive length, shadow duration / total days *
\* total width.  Stated for a positive maximum month width.
C6_RowLengths ==
    FLt(F(0), max_month_width) =>
        \A k \in 1..Len(rows) :
            /\ ~items[k].duration.some => ~rows[k].length.some
            /\ items[k].duration.some /\ items[k].duration.v > 0 =>
                  /\ rows[k].length.some
                  /\ FLt(F(0), rows[k].length.v)
                  /\ rows[k].length.v =
                        FMul(FDiv(F(shadow_durations[k].v), F(num_item_days)),
                             all_items_width)

\* C7: the canvas height is top gutter + rows * row height + bottom gutter,
\* plus resource_height, and nothing else, when the legend is requested.
C7_CanvasHeight ==
    canvas.some =>
        canvas.v.height =
            FAdd(FAdd(FAdd(gutter.top, FMul(F(Len(rows)), row_height)),
                      IF canvas.v.add_resource_table THEN resource_height ELSE F(0)),
                 gutter.bottom)

\* The example of the specification: A starts Mon 2024-01-01 and lasts 5 days
\* on resource 0, B lasts 3 days on resource 1.
ExampleItems ==
    << ItemData(Some(Midnight(2024, 1, 1)), Some(5), Some(0)),
       ItemData(None, Some(3), Some(1)) >>

\* C8: in the second pass each row's offset is the one of the item's explicit
\* start, or else of the cursor the item before it left behind (its own cursor
\* moved on by its shadow duration, if it has one).  In the example the project
\* starts on 2024-01-01, A is extended from 5 to 7 days, and B, with shadow
\* duration 3, lies 7 days after the start.
C8_RowCursor ==
    /\ \A k \in 1..Len(rows) : rows[k].offset = Offset(CursorAt(k))
    /\ items = ExampleItems /\ PastValidation =>
          /\ start_date = Midnight(2024, 1, 1)
          /\ shadow_durations = << Some(7), Some(3) >>
    /\ items = ExampleItems /\ HasGeometry =>
          /\ rows[1].offset = FAdd(title_width, gutter.left)
          /\ rows[2].offset =
                FAdd(FAdd(title_width, gutter.left),
                     FDiv(FMul(F(7), max_month_width), F(31)))
          /\ date = Midnight(2024, 1, 11)

\* The example, finished, at the default widths: B's row starts at
\* 220 + 7 * 80 / 31.
C8_Witness ==
    /\ pc = "rendered"
    /\ items = ExampleItems
    /\ max_month_width = F(80)
    /\ rows[2].offset = FNorm(220 * 31 + 7 * 80, 31)

\* C9: when the first item's explicit start is a Saturday or a Sunday, its
\* cursor is the following Monday: its projected end, its shadow duration, the
\* cursor it leaves behind and its row's offset are computed from that Monday.
C9_FirstCursorSnapped ==
    Len(shadow_durations) >= 1 /\ IsWeekend(items[1].start_date.v) =>
        LET monday == WeekendSnap(items[1].start_date.v).v
            d      == items[1].duration
            shadow == IF ~d.some THEN None
                      ELSE IF Weekday(monday + Days(d.v)) = Sat THEN Some(d.v + 2)
                      ELSE IF Weekday(monday + Days(d.v)) = Sun THEN Some(d.v + 1)
                      ELSE d
        IN  /\ shadow_durations[1] = shadow
            /\ pc = "span" /\ i = 2 =>
                  date = IF shadow.some THEN monday + Days(shadow.v) ELSE monday
            /\ Len(rows) >= 1 => rows[1].offset = Offset(monday)

\* The calendar: the length of month m of year y.
IsLeapYear(y) == y % 4 = 0 /\ (y % 100 # 0 \/ y % 400 = 0)

MonthLength(y, m) ==
    IF m = 2 THEN (IF IsLeapYear(y) THEN 29 ELSE 28)
    ELSE IF m \in {4, 6, 9, 11} THEN 30
    ELSE 31

RECURSIVE DaysOfMonths(_, _)
DaysOfMonths(a, b) ==
    IF a > b THEN 0
    ELSE MonthLength(a \div 12, (a % 12) + 1) + DaysOfMonths(a + 1, b)

ExplicitStarts == { items[k].start_date.v : k \in { j \in Indexes : items[j].start_date.some } }

\* One column for each month a .. b, in order, labelled with the month's name,
\* and the total day count the days of those months.
ColumnsAre(a, b) ==
    /\ Len(cols) = (IF a > b THEN 0 ELSE b - a + 1)
    /\ \A j \in 1..Len(cols) : cols[j].month_name = MONTH_NAMES[((a + j - 1) % 12) + 1]
    /\ num_item_days = DaysOfMonths(a, b)

\* C10: the columns are the months from the month of the weekend-snapped
\* earliest explicit start through the month of the largest cursor value
\* reached, in order, across year ends, each with its month's name; the total
\* day count is the days in those months.
C10_MonthColumns ==
    AfterColumns =>
        ColumnsAre(MonthIndex(WeekendSnap(MinOf(ExplicitStarts)).v),
                   MonthIndex(MaxOf(ItemInstants)))

\* The left and the right edge of the month-column area.
ColumnsLeft == FAdd(title_width, gutter.left)

ColumnsRight == FAdd(ColumnsLeft, all_items_width)

\* Where a row ends: its offset plus its length, its offset for a milestone.
RowEnd(row) == IF row.length.some THEN FAdd(row.offset, row.length.v) ELSE row.offset

\* C11: for every valid schedule without negative durations, every row lies
\* inside the month-column area: the cursor of the row is not earlier than the
\* month-snapped start_date, the row's offset is at least title_width + left
\* gutter, and its offset plus its length (its offset, for a milestone) is at
\* most title_width + left gutter + the sum of the column widths.
C11_RowsInsideColumns ==
    AfterColumns /\ NonNegativeDurations =>
        \A k \in 1..Len(rows) :
            /\ start_date <= CursorAt(k)
            /\ FLe(ColumnsLeft, rows[k].offset)
            /\ FLe(RowEnd(rows[k]), ColumnsRight)

\* The run is past the snapping of the span to whole months.
AfterSnap == pc \in {"cols", "rows", "processed", "rendered"}

\* C12: for every schedule that passes validation, schedules of milestones
\* only and schedules whose first item starts on a weekend included, the
\* month-snapped start_date is not later than the month-snapped end_date, the
\* column loop produces at least one column, and the total day count, the
\* divisor of the offsets and lengths, is not zero.  Stated for the schedules
\* without negative durations, the ones the claim names among them.
C12_ColumnLoopRuns ==
    NonNegativeDurations =>
        /\ AfterSnap => start_date <= end_date
        /\ AfterColumns => Len(cols) >= 1 /\ num_item_days # 0

====
